---- MODULE Spec2Model ----
(***************************************************************************)
(* Model of the two pure helpers of the AI Career Guide backend            *)
(* (src/backend/server.js): parseAnalysis and extractProfileFromAnswers,   *)
(* in both server variants found in the file:                              *)
(*   - the @google/genai server        (lines 1-343),   suffix _genai      *)
(*   - the @google/generative-ai server (lines 392-789), suffix _legacy    *)
(* and of the request handlers of the file that call the text-generation   *)
(* API, those of the two /chat servers (lines 345-391, 791-839) included.  *)
(*                                                                         *)
(* A JavaScript string is modelled as a sequence of lexical tokens.  Each  *)
(* token stands for a fixed run of characters; the tokens are chosen so    *)
(* that every literal the regular expressions of the source look for is    *)
(* one token or a run of whole tokens, and so that no literal can arise    *)
(* across a token boundary.                                                *)
(***************************************************************************)
EXTENDS Integers, Sequences, FiniteSets, TLC

VARIABLES
    text,        \* the argument handed to parseAnalysis
    structured,  \* the record parseAnalysis returned
    fixture,     \* the content the text was built from (round trip only)
    answers,     \* the argument handed to extractProfileFromAnswers
    profile,     \* the record extractProfileFromAnswers returned
    pc,          \* "input" before the call, then the variant that ran
    second,      \* a second call of extractProfileFromAnswers on the mapping
    requests     \* the HTTP requests of the servers, by request number

vars == <<text, structured, fixture, answers, profile, pc, second, requests>>

---------------------------------------------------------------------------
(* Tokens *)

HDR1 == "**CAREER PROFILE ANALYSIS:**"
TOP3 == "**TOP 3"
RECS == " CAREER RECOMMENDATIONS:**"
NEXT == "**NEXT"
STEPS == " STEPS:**"
NL == "\n"
SP == " "
DOT == "."
DASH == "-"
BULLET == "(U+2022 bullet)"
ACIRC == "(U+00E2 a-circumflex)"
EURO == "(U+20AC euro)"
CENT == "(U+00A2 cent)"
PCT == "%"
MATCHC == "Match:"

\* The three section headers of the template, as token runs.
Header1 == <<HDR1>>
Header2 == <<TOP3, RECS>>
Header3 == <<NEXT, STEPS>>

DigitSeq == <<"0", "1", "2", "3", "4", "5", "6", "7", "8", "9">>
Digits == {DigitSeq[k] : k \in 1..10}
Whitespace == {SP, NL}

DigitVal(c) == (CHOOSE k \in 1..10 : DigitSeq[k] = c) - 1

---------------------------------------------------------------------------
(* String primitives *)

Min(S) == CHOOSE m \in S : \A n \in S : m <= n

\* s.substring(from - 1): the tokens of s from position from on.
From(s, from) == SubSeq(s, from, Len(s))

\* Whether the token run pat occurs in s at position i.
OccursAt(s, pat, i) ==
    /\ i >= 1
    /\ i + Len(pat) - 1 <= Len(s)
    /\ \A k \in 1..Len(pat) : s[i + k - 1] = pat[k]

Contains(s, pat) == \E i \in 1..Len(s) : OccursAt(s, pat, i)

\* String.prototype.trim
RECURSIVE TrimStart(_)
TrimStart(s) ==
    IF s # <<>> /\ Head(s) \in Whitespace THEN TrimStart(Tail(s)) ELSE s

RECURSIVE TrimEnd(_)
TrimEnd(s) ==
    IF s # <<>> /\ s[Len(s)] \in Whitespace
    THEN TrimEnd(SubSeq(s, 1, Len(s) - 1))
    ELSE s

trim(s) == TrimEnd(TrimStart(s))

\* String.prototype.split("\n"): always at least one element.
RECURSIVE split(_)
split(s) ==
    IF \E i \in 1..Len(s) : s[i] = NL
    THEN LET i == Min({k \in 1..Len(s) : s[k] = NL})
         IN  <<SubSeq(s, 1, i - 1)>> \o split(From(s, i + 1))
    ELSE <<s>>

\* The length of the run of tokens of class cls that starts at position i.
RECURSIVE RunLen(_, _, _)
RunLen(s, i, cls) ==
    IF i <= Len(s) /\ s[i] \in cls THEN 1 + RunLen(s, i + 1, cls) ELSE 0

\* parseInt of a run of decimal digits.
RECURSIVE parseIntDigits(_)
parseIntDigits(ds) ==
    IF ds = <<>> THEN 0
    ELSE 10 * parseIntDigits(SubSeq(ds, 1, Len(ds) - 1)) + DigitVal(ds[Len(ds)])

---------------------------------------------------------------------------
(* Regular expressions of parseAnalysis *)

NoMatch == [ok |-> FALSE, g1 |-> <<>>]

\* /open([\s\S]*?)close/ : leftmost open that has a close after it, then the
\* shortest group that lets close match.
MatchBetween(s, open, close) ==
    LET ends(i) == {e \in (i + Len(open))..(Len(s) + 1) : OccursAt(s, close, e)}
        starts == {i \in 1..Len(s) : OccursAt(s, open, i) /\ ends(i) # {}}
    IN  IF starts = {} THEN NoMatch
        ELSE LET i == Min(starts)
             IN  [ok |-> TRUE, g1 |-> SubSeq(s, i + Len(open), Min(ends(i)) - 1)]

\* /open\n*(.*?)\n*close/s : the greedy \n* eats the newlines after open, the
\* lazy group is the shortest one after which \n*close matches.
MatchBetweenNL(s, open, close) ==
    LET b(i) == i + Len(open) + RunLen(s, i + Len(open), {NL})
        tail(e) == \E j \in e..(e + RunLen(s, e, {NL})) : OccursAt(s, close, j)
        ends(i) == {e \in b(i)..(Len(s) + 1) : tail(e)}
        starts == {i \in 1..Len(s) : OccursAt(s, open, i) /\ ends(i) # {}}
    IN  IF starts = {} THEN NoMatch
        ELSE LET i == Min(starts)
             IN  [ok |-> TRUE, g1 |-> SubSeq(s, b(i), Min(ends(i)) - 1)]

\* A wrong reading of MatchToEnd: only the first token of open ("**NEXT") is looked for.
MatchToEnd_prefix(s, open) ==
    LET starts == {i \in 1..Len(s) : OccursAt(s, <<Head(open)>>, i)}
    IN  IF starts = {} THEN NoMatch
        ELSE [ok |-> TRUE, g1 |-> From(s, Min(starts) + 1)]

\* /open([\s\S]*)$/ : the greedy group runs to the end of the input.
MatchToEnd(s, open) ==
    LET starts == {i \in 1..Len(s) : OccursAt(s, open, i)}
    IN  IF starts = {} THEN NoMatch
        ELSE [ok |-> TRUE, g1 |-> From(s, Min(starts) + Len(open))]

\* /open\n*(.*?)$/s : without the m flag $ is the end of the input, so the
\* lazy group grows to it.
MatchToEndNL(s, open) ==
    LET starts == {i \in 1..Len(s) : OccursAt(s, open, i)}
    IN  IF starts = {} THEN NoMatch
        ELSE LET i == Min(starts)
             IN  [ok |-> TRUE,
                  g1 |-> From(s, i + Len(open) + RunLen(s, i + Len(open), {NL}))]

NoLineMatch == [ok |-> FALSE, g1 |-> <<>>, g2 |-> <<>>, g3 |-> <<>>]

\* A wrong reading of LineMatch: the title group is greedy, (.*) for (.*?).
LineMatch_greedyTitle(line) ==
    LET d == RunLen(line, 1, Digits)
        t0 == d + 3
        tailAt(q) == /\ OccursAt(line, <<SP, MATCHC, SP>>, q)
                     /\ RunLen(line, q + 3, Digits) >= 1
                     /\ OccursAt(line, <<PCT>>, q + 3 + RunLen(line, q + 3, Digits))
        qs(p) == {q \in (p + 3)..Len(line) : tailAt(q)}
        ps == {p \in t0..Len(line) :
                  OccursAt(line, <<SP, DASH, SP>>, p) /\ qs(p) # {}}
    IN  IF d >= 1 /\ OccursAt(line, <<DOT, SP>>, d + 1) /\ ps # {}
        THEN LET p == CHOOSE m \in ps : \A n \in ps : m >= n
                 q == Min(qs(p))
             IN  [ok |-> TRUE,
                  g1 |-> SubSeq(line, t0, p - 1),
                  g2 |-> SubSeq(line, p + 3, q - 1),
                  g3 |-> SubSeq(line, q + 3, q + 2 + RunLen(line, q + 3, Digits))]
        ELSE NoLineMatch

\* /^\d+\. (.*?) - (.*?) Match: (\d+)%/ on one line.
LineMatch(line) ==
    LET d == RunLen(line, 1, Digits)
        t0 == d + 3
        \* " Match: (\d+)%" at q: the greedy digit run must end at the %.
        tailAt(q) == /\ OccursAt(line, <<SP, MATCHC, SP>>, q)
                     /\ RunLen(line, q + 3, Digits) >= 1
                     /\ OccursAt(line, <<PCT>>, q + 3 + RunLen(line, q + 3, Digits))
        qs(p) == {q \in (p + 3)..Len(line) : tailAt(q)}
        ps == {p \in t0..Len(line) :
                  OccursAt(line, <<SP, DASH, SP>>, p) /\ qs(p) # {}}
    IN  IF d >= 1 /\ OccursAt(line, <<DOT, SP>>, d + 1) /\ ps # {}
        THEN LET p == Min(ps)
                 q == Min(qs(p))
             IN  [ok |-> TRUE,
                  g1 |-> SubSeq(line, t0, p - 1),
                  g2 |-> SubSeq(line, p + 3, q - 1),
                  g3 |-> SubSeq(line, q + 3, q + 2 + RunLen(line, q + 3, Digits))]
        ELSE NoLineMatch

\* line.replace(/^[cls]\s*/, "")
StripBullet(line, cls) ==
    IF line # <<>> /\ Head(line) \in cls
    THEN From(line, 2 + RunLen(line, 2, Whitespace))
    ELSE line

BulletClass_genai == {DASH, BULLET}
BulletClass_legacy == {DASH, ACIRC, EURO, CENT}

---------------------------------------------------------------------------
(* parseAnalysis, @google/genai server *)

recommendation_genai(m) ==
    [title |-> m.g1, description |-> m.g2, match |-> parseIntDigits(m.g3)]

RECURSIVE recLines_genai(_)
recLines_genai(lines) ==
    IF lines = <<>> THEN <<>>
    ELSE LET m == LineMatch(Head(lines))
         IN  (IF m.ok THEN <<recommendation_genai(m)>> ELSE <<>>)
                 \o recLines_genai(Tail(lines))

stepLines_genai(lines) ==
    [i \in 1..Len(lines) |-> trim(StripBullet(lines[i], BulletClass_genai))]

parseAnalysis_genai(t) ==
    LET summaryMatch == MatchBetween(t, Header1, <<TOP3>>)
        recsMatch == MatchBetween(t, Header2, <<NEXT>>)
        nextStepsMatch == MatchToEnd(t, Header3)
    IN  [summary |-> IF summaryMatch.ok THEN trim(summaryMatch.g1) ELSE <<>>,
         recommendations |->
             IF recsMatch.ok THEN recLines_genai(split(trim(recsMatch.g1))) ELSE <<>>,
         nextSteps |->
             IF nextStepsMatch.ok
             THEN stepLines_genai(split(trim(nextStepsMatch.g1)))
             ELSE <<>>]

---------------------------------------------------------------------------
(* parseAnalysis, @google/generative-ai server *)

recommendation_legacy(m) ==
    [title |-> trim(m.g1), description |-> trim(m.g2), match |-> parseIntDigits(m.g3)]

RECURSIVE recLines_legacy(_)
recLines_legacy(lines) ==
    IF lines = <<>> THEN <<>>
    ELSE LET m == LineMatch(Head(lines))
         IN  (IF m.ok THEN <<recommendation_legacy(m)>> ELSE <<>>)
                 \o recLines_legacy(Tail(lines))

stepLines_legacy(lines) ==
    [i \in 1..Len(lines) |-> trim(StripBullet(lines[i], BulletClass_legacy))]

parseAnalysis_legacy(t) ==
    LET summaryMatch == MatchBetweenNL(t, Header1, Header2)
        recsMatch == MatchBetweenNL(t, Header2, Header3)
        nextStepsMatch == MatchToEndNL(t, Header3)
    IN  [summary |-> IF summaryMatch.ok THEN trim(summaryMatch.g1) ELSE <<>>,
         recommendations |->
             IF recsMatch.ok THEN recLines_legacy(split(trim(recsMatch.g1))) ELSE <<>>,
         nextSteps |->
             IF nextStepsMatch.ok
             THEN stepLines_legacy(split(trim(nextStepsMatch.g1)))
             ELSE <<>>]

---------------------------------------------------------------------------
(* extractProfileFromAnswers *)

\* A property key is a sequence of character tokens; an answer is a string.
PLUS == "+"
HexLetters == <<"a", "b", "c", "d", "e", "f">>
HexDigits == Digits \cup {HexLetters[k] : k \in 1..6}
HexVal(c) ==
    IF c \in Digits THEN DigitVal(c)
    ELSE 9 + (CHOOSE k \in 1..6 : HexLetters[k] = c)

RECURSIVE parseHexDigits(_)
parseHexDigits(ds) ==
    IF ds = <<>> THEN 0
    ELSE 16 * parseHexDigits(SubSeq(ds, 1, Len(ds) - 1)) + HexVal(ds[Len(ds)])

NaN == [nan |-> TRUE, val |-> 0]

\* parseInt(string) without a radix: leading whitespace, a sign, "0x" for
\* radix 16, then the longest run of digits; NaN when that run is empty.
parseInt(str) ==
    LET s1 == TrimStart(str)
        signed == s1 # <<>> /\ Head(s1) \in {DASH, PLUS}
        sign == IF s1 # <<>> /\ Head(s1) = DASH THEN -1 ELSE 1
        s2 == IF signed THEN Tail(s1) ELSE s1
        hex == Len(s2) >= 2 /\ s2[1] = "0" /\ s2[2] \in {"x", "X"}
        s3 == IF hex THEN From(s2, 3) ELSE s2
        n == RunLen(s3, 1, IF hex THEN HexDigits ELSE Digits)
    IN  IF n = 0 THEN NaN
        ELSE [nan |-> FALSE,
              val |-> sign * (IF hex THEN parseHexDigits(SubSeq(s3, 1, n))
                                     ELSE parseIntDigits(SubSeq(s3, 1, n)))]

interestTags(answer) ==
    CASE answer = "analytical" -> <<"Problem Solving", "Analysis">>
      [] answer = "creative" -> <<"Creative Work", "Design">>
      [] answer = "people-oriented" -> <<"People Management", "Communication">>
      [] answer = "leadership" -> <<"Leadership", "Management">>
      [] OTHER -> <<>>

skillTags(answer) ==
    CASE answer = "technical" -> <<"Technical Skills", "Programming">>
      [] answer = "communication" -> <<"Communication", "Presentation">>
      [] answer = "leadership-skills" -> <<"Leadership", "Management">>
      [] answer = "creative-skills" -> <<"Creative Skills", "Design">>
      [] OTHER -> <<>>

\* case 3 of the @google/genai server; an unrecognised answer assigns nothing.
careerGoals_genai(old, answer) ==
    CASE answer = "financial" -> "Financial success and stability"
      [] answer = "impact" -> "Positive social impact"
      [] answer = "growth" -> "Personal and professional growth"
      [] answer = "recognition" -> "Achievement and recognition"
      [] OTHER -> old

\* case 3 of the @google/generative-ai server.
careerGoals_legacy(old, answer) ==
    CASE answer = "financial" -> "Financial success and stability"
      [] answer = "impact" -> "Making positive social impact"
      [] answer = "growth" -> "Personal and professional growth"
      [] answer = "recognition" -> "Achievement and recognition"
      [] OTHER -> old

\* The body of the forEach callback: switch (parseInt(id)).
visitEntry_genai(p, id, answer) ==
    LET n == parseInt(id)
    IN  IF n.nan THEN p
        ELSE CASE n.val = 1 -> [p EXCEPT !.interests = @ \o interestTags(answer)]
               [] n.val = 2 -> [p EXCEPT !.workStyle = answer]
               [] n.val = 3 -> [p EXCEPT !.careerGoals = careerGoals_genai(@, answer)]
               [] n.val = 4 -> [p EXCEPT !.industry = answer]
               [] n.val = 7 -> [p EXCEPT !.skills = @ \o skillTags(answer)]
               [] n.val = 10 -> [p EXCEPT !.experience = answer]
               [] OTHER -> p

visitEntry_legacy(p, id, answer) ==
    LET n == parseInt(id)
    IN  IF n.nan THEN p
        ELSE CASE n.val = 1 -> [p EXCEPT !.interests = @ \o interestTags(answer)]
               [] n.val = 2 -> [p EXCEPT !.workStyle = answer]
               [] n.val = 3 -> [p EXCEPT !.careerGoals = careerGoals_legacy(@, answer)]
               [] n.val = 4 -> [p EXCEPT !.industry = answer]
               [] n.val = 7 -> [p EXCEPT !.skills = @ \o skillTags(answer)]
               [] n.val = 10 -> [p EXCEPT !.experience = answer]
               [] OTHER -> p

EmptyProfile ==
    [interests |-> <<>>, skills |-> <<>>, experience |-> "",
     workStyle |-> "", careerGoals |-> "", industry |-> ""]

\* Object.entries(answers).forEach(...), entries being the sequence of
\* [id, answer] pairs in the order Object.entries returns them.
RECURSIVE forEach_genai(_, _)
forEach_genai(p, entries) ==
    IF entries = <<>> THEN p
    ELSE forEach_genai(visitEntry_genai(p, Head(entries).id, Head(entries).answer),
                       Tail(entries))

RECURSIVE forEach_legacy(_, _)
forEach_legacy(p, entries) ==
    IF entries = <<>> THEN p
    ELSE forEach_legacy(visitEntry_legacy(p, Head(entries).id, Head(entries).answer),
                        Tail(entries))

extractProfileFromAnswers_genai(entries) == forEach_genai(EmptyProfile, entries)
extractProfileFromAnswers_legacy(entries) == forEach_legacy(EmptyProfile, entries)

---------------------------------------------------------------------------
(* Inputs of parseAnalysis *)

MaxHeaderPieces == 4
MaxRecPieces == 4
MaxStepPieces == 4

RECURSIVE Flatten(_)
Flatten(ps) == IF ps = <<>> THEN <<>> ELSE Head(ps) \o Flatten(Tail(ps))

SeqsUpTo(S, n) == UNION {[1..k -> S] : k \in 0..n}

\* "1. Data Scientist - Analyzes data. Match: 85%", "2. U - E Match: 150%",
\* and a line whose Match lacks the colon.
GoodLine1 ==
    <<"1", DOT, SP, "Data Scientist", SP, DASH, SP, "Analyzes data.", SP,
      MATCHC, SP, "8", "5", PCT>>
GoodLine2 == <<"2", DOT, SP, "U", SP, DASH, SP, "E", SP, MATCHC, SP, "1", "5", "0", PCT>>
BadLine == <<"1", DOT, SP, "V", SP, DASH, SP, "F", SP, "Match", SP, "8", "5", PCT>>

HeaderPieces ==
    {Header1, Header2, <<TOP3>>, Header3, <<NEXT>>, <<NL>>, <<"x">>, GoodLine1}
RecPieces == {<<NL>>, <<SP>>, GoodLine1, GoodLine2, BadLine, <<NEXT>>}
StepPieces == {<<NL>>, <<SP>>, <<DASH>>, <<BULLET>>, <<ACIRC>>, <<"s">>}

\* Free arrangements of headers, stray markers and content.
HeaderTexts == {Flatten(ps) : ps \in SeqsUpTo(HeaderPieces, MaxHeaderPieces)}
\* All three headers in order around a free recommendations section.
RecTexts ==
    {Header1 \o <<"x", NL>> \o Header2 \o Flatten(ps) \o Header3 \o <<NL, DASH, SP, "s">> :
        ps \in SeqsUpTo(RecPieces, MaxRecPieces)}
\* A free next-steps section.
StepTexts == {Header3 \o Flatten(ps) : ps \in SeqsUpTo(StepPieces, MaxStepPieces)}

Inputs == HeaderTexts \cup RecTexts \cup StepTexts

---------------------------------------------------------------------------
(* State machine: one call of a helper on one input *)

\* No second call yet.
NoSecond == [variant |-> "none", entries |-> <<>>, profile |-> EmptyProfile]

EmptyAnalysis == [summary |-> <<>>, recommendations |-> <<>>, nextSteps |-> <<>>]
EmptyFixture == [summary |-> <<>>, recommendations |-> <<>>, nextSteps |-> <<>>]
Init ==
    /\ text \in Inputs
    /\ structured = EmptyAnalysis
    /\ fixture = EmptyFixture
    /\ answers = <<>>
    /\ profile = EmptyProfile
    /\ pc = "input"
    /\ second = NoSecond
    /\ requests = <<>>

ParseGenai ==
    /\ pc = "input"
    /\ structured' = parseAnalysis_genai(text)
    /\ pc' = "genai"
    /\ UNCHANGED <<text, fixture, answers, profile, second, requests>>

ParseLegacy ==
    /\ pc = "input"
    /\ structured' = parseAnalysis_legacy(text)
    /\ pc' = "legacy"
    /\ UNCHANGED <<text, fixture, answers, profile, second, requests>>

Next == ParseGenai \/ ParseLegacy

Spec == Init /\ [][Next]_vars

---------------------------------------------------------------------------
(* Round trip: texts built from known content *)

MaxFixRecs == 2
MaxFixSteps == 2

\* Number.prototype.toString of a natural number, as the template literal does.
RECURSIVE ToDigits(_)
ToDigits(n) ==
    IF n < 10 THEN <<DigitSeq[n + 1]>>
    ELSE ToDigits(n \div 10) \o <<DigitSeq[(n % 10) + 1]>>

\* `${i}. ${title} - ${description} Match: ${match}%` and a line end.
RECURSIVE RecText(_, _)
RecText(recs, i) ==
    IF i > Len(recs) THEN <<>>
    ELSE ToDigits(i) \o <<DOT, SP>> \o recs[i].title \o <<SP, DASH, SP>>
             \o recs[i].description \o <<SP, MATCHC, SP>>
             \o ToDigits(recs[i].match) \o <<PCT, NL>>
             \o RecText(recs, i + 1)

RECURSIVE StepText(_)
StepText(steps) ==
    IF steps = <<>> THEN <<>>
    ELSE <<DASH, SP>> \o Head(steps) \o <<NL>> \o StepText(Tail(steps))

BuildText(f) ==
    Header1 \o <<NL>> \o f.summary \o <<NL>>
        \o Header2 \o <<NL>> \o RecText(f.recommendations, 1)
        \o Header3 \o <<NL>> \o StepText(f.nextSteps)

FixSummaries == {<<"x">>, <<SP, "x", NL>>, <<HDR1, "x">>, <<"x", TOP3>>}
FixRecs ==
    {[title |-> <<"T">>, description |-> <<"D", SP, DASH, SP, "E">>, match |-> 85],
     [title |-> <<SP, "U">>, description |-> <<"E", SP>>, match |-> 0],
     [title |-> <<"A", SP, DASH, SP, "B">>, description |-> <<"D">>, match |-> 85],
     [title |-> <<"T">>, description |-> <<"D", SP, MATCHC, SP, "5", PCT>>, match |-> 85],
     [title |-> <<"T">>, description |-> <<"D", NEXT>>, match |-> 85]}
FixSteps == {<<>>, <<BULLET, SP, "s">>, <<"s", NL, "t">>}

Fixtures ==
    [summary : FixSummaries,
     recommendations : SeqsUpTo(FixRecs, MaxFixRecs),
     nextSteps : SeqsUpTo(FixSteps, MaxFixSteps)]

InitRoundTrip ==
    /\ fixture \in Fixtures
    /\ text = BuildText(fixture)
    /\ structured = EmptyAnalysis
    /\ answers = <<>>
    /\ profile = EmptyProfile
    /\ pc = "input"
    /\ second = NoSecond
    /\ requests = <<>>

SpecRoundTrip == InitRoundTrip /\ [][Next]_vars

---------------------------------------------------------------------------
(* Inputs of extractProfileFromAnswers: the answers objects *)

MaxEntries == 3
MaxTableEntries == 2

Keys ==
    {<<"1">>, <<"2">>, <<"3">>, <<"4">>, <<"7">>, <<"1", "0">>, <<"5">>,
     <<"1", "a">>, <<"3", "a">>, <<"0", "1">>, <<"x">>}
CoreAnswers == {"analytical", "leadership", "technical", "impact", "remote"}
TableKeys == {<<"1">>, <<"3">>, <<"7">>}
AllAnswers ==
    {"analytical", "creative", "people-oriented", "leadership",
     "technical", "communication", "leadership-skills", "creative-skills",
     "financial", "impact", "growth", "recognition", "remote"}

\* An integer index key: the canonical decimal numeral of a number.
IsIndexKey(k) ==
    /\ k # <<>>
    /\ \A i \in 1..Len(k) : k[i] \in Digits
    /\ k = ToDigits(parseIntDigits(k))

RECURSIVE AscendingKeys(_)
AscendingKeys(K) ==
    IF K = {} THEN <<>>
    ELSE LET k == CHOOSE x \in K : \A y \in K : parseIntDigits(x) <= parseIntDigits(y)
         IN  <<k>> \o AscendingKeys(K \ {k})

Orderings(K) ==
    {o \in [1..Cardinality(K) -> K] : \A i, j \in 1..Cardinality(K) : i # j => o[i] # o[j]}

\* Object.entries of the object with keys K and values f, whose non-index
\* keys were created in the order o: index keys ascending, then the others
\* in creation order.
ObjectEntries(K, f, o) ==
    LET keys == AscendingKeys({k \in K : IsIndexKey(k)}) \o o
    IN  [i \in 1..Len(keys) |-> [id |-> keys[i], answer |-> f[keys[i]]]]

\* Two families of objects: up to MaxEntries entries over all the keys with
\* a few answers, and up to MaxTableEntries entries over the table-driven
\* ids with every answer of the tables.
Families ==
    {[keys |-> Keys, values |-> CoreAnswers, n |-> MaxEntries],
     [keys |-> TableKeys, values |-> AllAnswers, n |-> MaxTableEntries]}

InitProfile ==
    /\ \E F \in Families :
          \E K \in {K \in SUBSET F.keys : Cardinality(K) <= F.n} :
             \E f \in [K -> F.values] :
                \E o \in Orderings({k \in K : ~IsIndexKey(k)}) :
                   answers = ObjectEntries(K, f, o)
    /\ profile = EmptyProfile
    /\ text = <<>>
    /\ structured = EmptyAnalysis
    /\ fixture = EmptyFixture
    /\ pc = "input"
    /\ second = NoSecond
    /\ requests = <<>>

ExtractGenai ==
    /\ pc = "input"
    /\ profile' = extractProfileFromAnswers_genai(answers)
    /\ pc' = "genai"
    /\ UNCHANGED <<answers, text, structured, fixture, second, requests>>

ExtractLegacy ==
    /\ pc = "input"
    /\ profile' = extractProfileFromAnswers_legacy(answers)
    /\ pc' = "legacy"
    /\ UNCHANGED <<answers, text, structured, fixture, second, requests>>

NextProfile == ExtractGenai \/ ExtractLegacy

SpecProfile == InitProfile /\ [][NextProfile]_vars

---------------------------------------------------------------------------
(* Two calls on one mapping *)

KeysOf(entries) == {entries[i].id : i \in 1..Len(entries)}
ValueOf(entries, k) == entries[CHOOSE i \in 1..Len(entries) : entries[i].id = k].answer

\* The entries of the same mapping for every creation order of its keys.
Reorderings(entries) ==
    LET K == KeysOf(entries)
    IN  {ObjectEntries(K, [k \in K |-> ValueOf(entries, k)], o) :
            o \in Orderings({k \in K : ~IsIndexKey(k)})}

AgainGenai ==
    /\ pc \in {"genai", "legacy"}
    /\ second = NoSecond
    /\ \E e \in Reorderings(answers) :
          second' = [variant |-> "genai", entries |-> e,
                     profile |-> extractProfileFromAnswers_genai(e)]
    /\ UNCHANGED <<answers, profile, pc, text, structured, fixture, requests>>

AgainLegacy ==
    /\ pc \in {"genai", "legacy"}
    /\ second = NoSecond
    /\ \E e \in Reorderings(answers) :
          second' = [variant |-> "legacy", entries |-> e,
                     profile |-> extractProfileFromAnswers_legacy(e)]
    /\ UNCHANGED <<answers, profile, pc, text, structured, fixture, requests>>

NextTwoCalls == ExtractGenai \/ ExtractLegacy \/ AgainGenai \/ AgainLegacy

SpecTwoCalls == InitProfile /\ [][NextTwoCalls]_vars

---------------------------------------------------------------------------
(* The request handlers that call the text-generation API *)

NumRequests == 2
Req == 1..NumRequests

\* JavaScript values of the request bodies.
Undefined == [type |-> "undefined", str |-> <<>>, entries |-> <<>>]
Null == [type |-> "null", str |-> <<>>, entries |-> <<>>]
Str(s) == [type |-> "string", str |-> s, entries |-> <<>>]
Obj(entries) == [type |-> "object", str |-> <<>>, entries |-> entries]

\* A wrong reading of !v, under which only a missing value is falsy.
Falsy_missingOnly(v) == v.type = "undefined"

\* !v
Falsy(v) ==
    \/ v.type \in {"undefined", "null"}
    \/ v.type = "string" /\ v.str = <<>>

\* typeof v
Typeof(v) == IF v.type = "null" THEN "object" ELSE v.type

\* The four servers of the file and their routes that call the API.
Servers == {"genai", "legacy", "chat_bodyparser", "chat_json"}
Routes(server) ==
    IF server \in {"genai", "legacy"}
    THEN {"/api/chat", "/api/quiz-analysis", "/api/career-assessment", "/api/industry-insights"}
    ELSE {"/chat"}

\* Thrown values: an Error with its message, or a value without a message
\* string (a thrown string, null, a plain object).
API_KEY_INVALID == "API_KEY_INVALID"
RATE_LIMIT_EXCEEDED == "RATE_LIMIT_EXCEEDED"
ErrorOf(message) == [hasMessage |-> TRUE, message |-> message]
NoMessage == [hasMessage |-> FALSE, message |-> <<>>]
TypeError == ErrorOf(<<"Cannot read properties of undefined">>)

Respond(status, body) == [kind |-> "response", response |-> [status |-> status, body |-> body]]
Proceed == [kind |-> "await", response |-> [status |-> 0, body |-> <<>>]]
Rejected == [kind |-> "rejected", response |-> [status |-> 0, body |-> <<>>]]

\* The catch block of a handler, given the thrown value.
catch(server, route, error) ==
    IF server = "legacy" /\ route = "/api/chat"
    THEN IF ~error.hasMessage THEN Rejected
         ELSE IF Contains(error.message, <<API_KEY_INVALID>>)
              THEN Respond(401, [error |-> "API key invalid"])
         ELSE IF Contains(error.message, <<RATE_LIMIT_EXCEEDED>>)
              THEN Respond(429, [error |-> "Rate limit exceeded"])
         ELSE Respond(500, [error |-> "Internal server error"])
    ELSE CASE route = "/api/chat" -> Respond(500, [error |-> "Internal server error"])
           [] route = "/api/quiz-analysis" -> Respond(500, [error |-> "Analysis failed"])
           [] route = "/api/career-assessment" -> Respond(500, [error |-> "Assessment failed"])
           [] route = "/api/industry-insights" -> Respond(500, [error |-> "Failed to fetch insights"])
           [] route = "/chat" -> Respond(500, [reply |-> <<"Sorry">>])

\* The handler from its start to its await: a response, or the external call.
beforeAwait(server, route, body) ==
    CASE route = "/api/chat" ->
             IF Falsy(body.message)
             THEN Respond(400, [error |-> "Invalid request format"])
             ELSE IF body.userProfile = "partial"
                  THEN catch(server, route, TypeError)
                  ELSE Proceed
      [] route = "/api/quiz-analysis" ->
             IF Falsy(body.answers) \/ Typeof(body.answers) # "object"
             THEN Respond(400, [error |-> "Invalid request"])
             ELSE IF body.answers.type = "null"
                  THEN catch(server, route, TypeError)
                  ELSE Proceed
      [] route = "/chat" /\ server = "chat_json" ->
             IF Falsy(body.message) \/ trim(body.message.str) = <<>>
             THEN Respond(400, [reply |-> <<"Please enter a message.">>])
             ELSE Proceed
      [] OTHER -> Proceed

\* A wrong reading, in which the generated text is kept in one place for all
\* the requests.
ownText_shared(rs, r) == rs[1].text

\* const analysis = result.text, a local of the handler of request r.
ownText(rs, r) == rs[r].text

\* The handler after the external call returned text.
afterAwait(server, route, body, analysis) ==
    CASE route = "/api/quiz-analysis" ->
             LET prof == IF server = "genai"
                         THEN extractProfileFromAnswers_genai(body.answers.entries)
                         ELSE extractProfileFromAnswers_legacy(body.answers.entries)
                 structuredAnalysis == IF server = "genai" THEN parseAnalysis_genai(analysis)
                                       ELSE parseAnalysis_legacy(analysis)
             IN  Respond(200, [analysis |-> structuredAnalysis.summary,
                               recommendations |-> structuredAnalysis.recommendations,
                               nextSteps |-> structuredAnalysis.nextSteps,
                               profile |-> prof])
      [] route \in {"/api/chat", "/chat"} -> Respond(200, [reply |-> analysis])
      [] route = "/api/career-assessment" -> Respond(200, [assessment |-> analysis])
      [] route = "/api/industry-insights" -> Respond(200, [insights |-> analysis])

\* Request bodies and outcomes of the external call.
NoBody == [message |-> Undefined, answers |-> Undefined, userProfile |-> "none"]
Hi == Str(<<"h", "i">>)
Answers1 ==
    Obj(<<[id |-> <<"1">>, answer |-> "analytical"], [id |-> <<"7">>, answer |-> "technical"]>>)
Answers2 == Obj(<<[id |-> <<"3">>, answer |-> "impact"]>>)

Bodies(server, route) ==
    CASE route = "/api/chat" ->
             {[NoBody EXCEPT !.message = m] : m \in {Undefined, Str(<<>>), Hi}}
                 \cup {[NoBody EXCEPT !.message = Hi, !.userProfile = u] :
                           u \in {"complete", "partial"}}
      [] route = "/api/quiz-analysis" ->
             {[NoBody EXCEPT !.answers = a] :
                 a \in {Undefined, Null, Str(<<"a">>), Answers1, Answers2}}
      [] route = "/chat" ->
             {[NoBody EXCEPT !.message = m] :
                 m \in IF server = "chat_json" THEN {Undefined, Str(<<>>), Str(<<SP>>), Hi}
                       ELSE {Undefined, Hi}}
      [] OTHER -> {NoBody}

Text1 ==
    Header1 \o <<"x">> \o Header2
        \o <<"1", DOT, SP, "T", SP, DASH, SP, "D", SP, MATCHC, SP, "9", PCT>>
        \o Header3 \o <<DASH, SP, "s">>
Text2 == Header1 \o <<"y">> \o Header2 \o Header3 \o <<BULLET, "t", NL, "u">>

Texts(route) == IF route = "/api/quiz-analysis" THEN {Text1, Text2} ELSE {<<"r">>}

Thrown ==
    {ErrorOf(<<"x">>), ErrorOf(<<"[", API_KEY_INVALID, "]">>),
     ErrorOf(<<RATE_LIMIT_EXCEEDED>>), NoMessage}

IdleRequest ==
    [server |-> "none", route |-> "none", body |-> NoBody, pc |-> "idle",
     calls |-> 0, outcome |-> "none", text |-> <<>>, error |-> NoMessage,
     responses |-> <<>>]

InitServer ==
    /\ requests = [r \in Req |-> IdleRequest]
    /\ text = <<>>
    /\ structured = EmptyAnalysis
    /\ fixture = EmptyFixture
    /\ answers = <<>>
    /\ profile = EmptyProfile
    /\ second = NoSecond
    /\ pc = "input"

\* A request arrives and its handler runs up to its await.
Receive(r) ==
    /\ requests[r].pc = "idle"
    /\ \E server \in Servers :
          \E route \in Routes(server) :
             \E body \in Bodies(server, route) :
                LET out == beforeAwait(server, route, body)
                    got == [requests[r] EXCEPT !.server = server, !.route = route,
                                               !.body = body]
                IN  requests' =
                        [requests EXCEPT ![r] =
                            CASE out.kind = "await" ->
                                     [got EXCEPT !.pc = "awaiting", !.calls = @ + 1]
                              [] out.kind = "response" ->
                                     [got EXCEPT !.pc = "done",
                                                 !.responses = Append(@, out.response)]
                              [] out.kind = "rejected" -> [got EXCEPT !.pc = "rejected"]]
    /\ UNCHANGED <<text, structured, fixture, answers, profile, pc, second>>

\* The external call of a request returns text and its handler resumes.
Resolve(r) ==
    /\ requests[r].pc = "awaiting"
    /\ \E t \in Texts(requests[r].route) :
          LET got == [requests EXCEPT ![r].text = t, ![r].outcome = "resolved"]
              out == afterAwait(got[r].server, got[r].route, got[r].body, ownText(got, r))
          IN  requests' = [got EXCEPT ![r].pc = "done",
                                      ![r].responses = Append(@, out.response)]
    /\ UNCHANGED <<text, structured, fixture, answers, profile, pc, second>>

\* The external call of a request throws and its handler resumes in its catch.
Reject(r) ==
    /\ requests[r].pc = "awaiting"
    /\ \E error \in Thrown :
          LET out == catch(requests[r].server, requests[r].route, error)
          IN  requests' =
                  [requests EXCEPT
                      ![r].outcome = "threw",
                      ![r].pc = IF out.kind = "rejected" THEN "rejected" ELSE "done",
                      ![r].responses = IF out.kind = "response"
                                       THEN Append(@, out.response) ELSE @]
    /\ UNCHANGED <<text, structured, fixture, answers, profile, pc, second>>

NextServer == \E r \in Req : Receive(r) \/ Resolve(r) \/ Reject(r)

SpecServer == InitServer /\ [][NextServer]_vars

\* The same handlers with the failure of the external call in two steps:
\* the call throws, then the runtime resumes the handler in its catch block.
Throw(r) ==
    /\ requests[r].pc = "awaiting"
    /\ \E error \in Thrown :
          requests' = [requests EXCEPT ![r].outcome = "threw", ![r].pc = "thrown",
                                       ![r].error = error]
    /\ UNCHANGED <<text, structured, fixture, answers, profile, pc, second>>

Catch(r) ==
    /\ requests[r].pc = "thrown"
    /\ LET out == catch(requests[r].server, requests[r].route, requests[r].error)
       IN  requests' =
               [requests EXCEPT
                   ![r].pc = IF out.kind = "rejected" THEN "rejected" ELSE "done",
                   ![r].responses = IF out.kind = "response"
                                    THEN Append(@, out.response) ELSE @]
    /\ UNCHANGED <<text, structured, fixture, answers, profile, pc, second>>

NextServerLive == \E r \in Req : Receive(r) \/ Resolve(r) \/ Throw(r) \/ Catch(r)

\* The event loop runs the catch block of a handler whose awaited call threw.
SpecServerLive ==
    InitServer /\ [][NextServerLive]_vars /\ \A r \in Req : WF_vars(Catch(r))

---------------------------------------------------------------------------
(* Vocabulary of the claims, stated on the text and independent of the     *)
(* operators above                                                         *)

Done == pc \in {"genai", "legacy"}

Pos(s, pat) == {i \in 1..Len(s) : OccursAt(s, pat, i)}
HasAfter(s, pat, from) == \E i \in Pos(s, pat) : i >= from
FirstAfter(s, pat, from) == Min({i \in Pos(s, pat) : i >= from})
Blank(s) == \A i \in 1..Len(s) : s[i] \in Whitespace

\* The position after the first occurrence of header open.
EndOfFirst(s, open) == FirstAfter(s, open, 1) + Len(open)
\* Whether close occurs after the first occurrence of open.
Delimited(s, open, close) ==
    Contains(s, open) /\ HasAfter(s, close, EndOfFirst(s, open))
\* The text strictly between the first open and the first close after it.
SectionBetween(s, open, close) ==
    SubSeq(s, EndOfFirst(s, open), FirstAfter(s, close, EndOfFirst(s, open)) - 1)
\* The text from the first open to the end of the input.
SectionAfter(s, open) == From(s, EndOfFirst(s, open))

\* A line of the shape <ordinal>. <title> - <description> Match: <integer>%
IsRecLine(line) ==
    \E d \in 1..Len(line) :
        /\ \A k \in 1..d : line[k] \in Digits
        /\ OccursAt(line, <<DOT, SP>>, d + 1)
        /\ \E p \in (d + 3)..Len(line) :
            /\ OccursAt(line, <<SP, DASH, SP>>, p)
            /\ \E q \in (p + 3)..Len(line) :
                /\ OccursAt(line, <<SP, MATCHC, SP>>, q)
                /\ \E n \in 1..Len(line) :
                    /\ \A k \in 1..n : q + 2 + k <= Len(line) /\ line[q + 2 + k] \in Digits
                    /\ OccursAt(line, <<PCT>>, q + 3 + n)

RecLinesOf(section) ==
    LET lines == split(trim(section))
    IN  {i \in 1..Len(lines) : IsRecLine(lines[i])}

---------------------------------------------------------------------------
(* C1 *)

\* C1 (as stated): a text without the NEXT STEPS header gets nextSteps = [],
\* a non-empty summary when header 1 and header 2 enclose non-blank text,
\* and one recommendation record for every well-formed line after header 2.
\* Stated of the @google/generative-ai server, whose regular expressions look
\* for the full header literals the claim names.
C1_AsStated ==
    (pc = "legacy" /\ ~Contains(text, Header3)) =>
        /\ structured.nextSteps = <<>>
        /\ (Delimited(text, Header1, Header2)
                /\ ~Blank(SectionBetween(text, Header1, Header2))
              => structured.summary # <<>>)
        /\ (Contains(text, Header2)
              => Len(structured.recommendations)
                   = Cardinality(RecLinesOf(SectionAfter(text, Header2))))

\* C1 (amended): a text without the NEXT STEPS header gets nextSteps = [],
\* a non-empty summary when header 1 is followed by header 2 with non-blank
\* text between header 1 and the first "**TOP 3" after it, and no
\* recommendation at all unless a "**NEXT" marker follows header 2.
C1_NoNextSteps ==
    (Done /\ ~Contains(text, Header3)) =>
        /\ structured.nextSteps = <<>>
        /\ (Delimited(text, Header1, Header2)
                /\ ~Blank(SectionBetween(text, Header1, <<TOP3>>))
              => structured.summary # <<>>)
        /\ (~Delimited(text, Header2, <<NEXT>>) => structured.recommendations = <<>>)
        /\ (pc = "legacy" => structured.recommendations = <<>>)

\* A parsed text without the NEXT STEPS header whose summary is populated and
\* whose well-formed line after header 2 produced no record.
C1_Witness ==
    /\ Done
    /\ ~Contains(text, Header3)
    /\ Delimited(text, Header1, Header2)
    /\ structured.summary # <<>>
    /\ RecLinesOf(SectionAfter(text, Header2)) # {}
    /\ structured.recommendations = <<>>

---------------------------------------------------------------------------
(* C2 *)

\* C2: the summary is the trimmed text strictly between the first header 1
\* and the header 2 that follows it, and is empty if either of the two full
\* header literals is absent from the text.
C2_SummaryBetweenHeaders ==
    Done =>
        /\ (~Contains(text, Header1) \/ ~Contains(text, Header2)
              => structured.summary = <<>>)
        /\ (Delimited(text, Header1, Header2)
              => structured.summary = trim(SectionBetween(text, Header1, Header2)))

\* C2 on the @google/generative-ai server alone.
C2_Legacy == pc = "legacy" => C2_SummaryBetweenHeaders

---------------------------------------------------------------------------
(* C3 *)

\* C3: every recommendation record has a match in 0..100.
C3_MatchIsPercentage ==
    Done => \A i \in 1..Len(structured.recommendations) :
                structured.recommendations[i].match \in 0..100

---------------------------------------------------------------------------
(* C4, C5 *)

ThreeHeadersInOrder(t) ==
    \E i \in Pos(t, Header1) : \E j \in Pos(t, Header2) : \E k \in Pos(t, Header3) :
        i < j /\ j < k

\* The lines of the recommendations section: between header 2 and header 3.
RecSectionLines(t) == split(trim(SectionBetween(t, Header2, Header3)))

\* Record r carries the title, description and integer of a reading of line
\* as <ordinal>. <title> - <description> Match: <integer>%
IsReadingOf(line, r) ==
    \E d \in 1..Len(line) :
        /\ \A k \in 1..d : line[k] \in Digits
        /\ OccursAt(line, <<DOT, SP>>, d + 1)
        /\ \E p \in (d + 3)..Len(line) :
            /\ OccursAt(line, <<SP, DASH, SP>>, p)
            /\ trim(r.title) = trim(SubSeq(line, d + 3, p - 1))
            /\ \E q \in (p + 3)..Len(line) :
                /\ OccursAt(line, <<SP, MATCHC, SP>>, q)
                /\ trim(r.description) = trim(SubSeq(line, p + 3, q - 1))
                /\ \E n \in 1..Len(line) :
                    /\ \A k \in 1..n : q + 2 + k <= Len(line) /\ line[q + 2 + k] \in Digits
                    /\ OccursAt(line, <<PCT>>, q + 3 + n)
                    /\ r.match = parseIntDigits(SubSeq(line, q + 3, q + 2 + n))

DataScientist ==
    [title |-> <<"Data Scientist">>, description |-> <<"Analyzes data.">>, match |-> 85]

\* C4: with all three headers in order, every line of the recommendations
\* section that has the shape yields a record with its title, description and
\* integer; the single line "1. Data Scientist - Analyzes data. Match: 85%"
\* yields exactly the record {Data Scientist, Analyzes data., 85}.
C4_LineYieldsRecord ==
    (Done /\ ThreeHeadersInOrder(text)) =>
        LET lines == RecSectionLines(text)
            recs == structured.recommendations
        IN  /\ \A i \in 1..Len(lines) :
                   IsRecLine(lines[i]) =>
                       \E k \in 1..Len(recs) : IsReadingOf(lines[i], recs[k])
            /\ (lines = <<GoodLine1>> => recs = <<DataScientist>>)

\* C4 on the @google/generative-ai server alone.
C4_Legacy == pc = "legacy" => C4_LineYieldsRecord

RECURSIVE Ascending(_)
Ascending(S) == IF S = {} THEN <<>> ELSE <<Min(S)>> \o Ascending(S \ {Min(S)})

\* C5: with all three headers in order, the recommendations are exactly the
\* well-formed lines of the section, one record each, in the order of the
\* lines, and no other line of the section contributes a record.
C5_OnlyWellFormedInOrder ==
    (Done /\ ThreeHeadersInOrder(text)) =>
        LET lines == RecSectionLines(text)
            good == Ascending({i \in 1..Len(lines) : IsRecLine(lines[i])})
            recs == structured.recommendations
        IN  /\ Len(recs) = Len(good)
            /\ \A k \in 1..Len(good) : IsReadingOf(lines[good[k]], recs[k])

\* C5 on the @google/generative-ai server alone.
C5_Legacy == pc = "legacy" => C5_OnlyWellFormedInOrder

---------------------------------------------------------------------------
(* C6 *)

\* A line with a leading "-" or bullet marker and the surrounding whitespace
\* removed.
Unbulleted(line) ==
    trim(IF line # <<>> /\ Head(line) \in {DASH, BULLET} THEN Tail(line) ELSE line)

\* C6: with the NEXT STEPS header present, nextSteps has one entry per line
\* of the section after its first occurrence, in order, each the line without
\* its leading "-" or bullet marker and surrounding whitespace; entries that
\* are empty after stripping are kept.
C6_NextStepsLines ==
    (Done /\ Contains(text, Header3)) =>
        LET lines == split(trim(SectionAfter(text, Header3)))
        IN  structured.nextSteps = [i \in 1..Len(lines) |-> Unbulleted(lines[i])]

\* C6 on the @google/genai server alone.
C6_Genai == pc = "genai" => C6_NextStepsLines

---------------------------------------------------------------------------
(* C7 *)

\* C7: every field whose delimiting headers are not both in the text has its
\* empty default.
C7_EmptyDefaults ==
    Done =>
        /\ (~Contains(text, Header1) \/ ~Contains(text, Header2)
              => structured.summary = <<>>)
        /\ (~Contains(text, Header2) \/ ~Contains(text, Header3)
              => structured.recommendations = <<>>)
        /\ (~Contains(text, Header3) => structured.nextSteps = <<>>)

\* C7 on the @google/generative-ai server alone.
C7_Legacy == pc = "legacy" => C7_EmptyDefaults

---------------------------------------------------------------------------
(* C8 *)

SeqTrimEqual(a, b) ==
    Len(a) = Len(b) /\ \A i \in 1..Len(a) : trim(a[i]) = trim(b[i])

RecsTrimEqual(a, b) ==
    /\ Len(a) = Len(b)
    /\ \A i \in 1..Len(a) :
           /\ trim(a[i].title) = trim(b[i].title)
           /\ trim(a[i].description) = trim(b[i].description)
           /\ a[i].match = b[i].match

\* C8 (as stated): parsing the text built from any fixture returns the
\* fixture's summary, recommendations and next steps up to trimming.
C8_AsStated ==
    Done =>
        /\ trim(structured.summary) = trim(fixture.summary)
        /\ RecsTrimEqual(structured.recommendations, fixture.recommendations)
        /\ SeqTrimEqual(structured.nextSteps, fixture.nextSteps)

NoMarker(s) == ~Contains(s, <<TOP3>>) /\ ~Contains(s, <<NEXT>>)
SingleLine(s) == ~Contains(s, <<NL>>)

\* No " - " in the title or across its end.
TitleOK(t) ==
    /\ SingleLine(t) /\ NoMarker(t)
    /\ ~Contains(t, <<SP, DASH, SP>>)
    /\ ~(Len(t) >= 2 /\ OccursAt(t, <<SP, DASH>>, Len(t) - 1))

\* No " Match: <digits>%" in the description.
DescOK(d) ==
    /\ SingleLine(d) /\ NoMarker(d)
    /\ ~\E q \in 1..Len(d) :
            /\ OccursAt(d, <<SP, MATCHC, SP>>, q)
            /\ RunLen(d, q + 3, Digits) >= 1
            /\ OccursAt(d, <<PCT>>, q + 3 + RunLen(d, q + 3, Digits))

ContentOK(f) ==
    /\ NoMarker(f.summary)
    /\ \A i \in 1..Len(f.recommendations) :
           TitleOK(f.recommendations[i].title) /\ DescOK(f.recommendations[i].description)
    /\ \A i \in 1..Len(f.nextSteps) :
           SingleLine(f.nextSteps[i]) /\ NoMarker(f.nextSteps[i])

\* C8 (amended): for a fixture whose strings hold no "**TOP 3" or "**NEXT",
\* whose titles, descriptions and steps are single lines, whose titles hold
\* no " - " (nor end in " -"), whose descriptions hold no " Match: <digits>%"
\* and whose matches are natural numbers, parsing the built text returns the
\* summary and the recommendations up to trimming; it returns the next steps
\* up to trimming when there is at least one, and [""] when there is none.
C8_RoundTrip ==
    (Done /\ ContentOK(fixture)) =>
        /\ trim(structured.summary) = trim(fixture.summary)
        /\ RecsTrimEqual(structured.recommendations, fixture.recommendations)
        /\ (fixture.nextSteps # <<>>
              => SeqTrimEqual(structured.nextSteps, fixture.nextSteps))
        /\ (fixture.nextSteps = <<>> => structured.nextSteps = << <<>> >>)

\* A parsed round-trip text with two recommendations, one of them with a
\* " - " in its description, and two next steps.
C8_Witness ==
    /\ Done
    /\ ContentOK(fixture)
    /\ Len(fixture.recommendations) = 2
    /\ \E i \in 1..2 : Contains(fixture.recommendations[i].description, <<SP, DASH, SP>>)
    /\ Len(fixture.nextSteps) = 2
    /\ Len(structured.recommendations) = 2
    /\ Len(structured.nextSteps) = 2

---------------------------------------------------------------------------
(* C9, C10 *)

RecognizedIds == {1, 2, 3, 4, 7, 10}

\* The key is the decimal numeral of question id n.
IsId(key, n) ==
    /\ key # <<>>
    /\ \A i \in 1..Len(key) : key[i] \in Digits
    /\ parseIntDigits(key) = n

EntriesFor(n) == {i \in 1..Len(answers) : IsId(answers[i].id, n)}

\* C9: a mapping none of whose keys is a recognized question id yields the
\* default profile, whatever other strings its keys are.
C9_UnknownIdsIgnored ==
    (Done /\ \A n \in RecognizedIds : EntriesFor(n) = {}) => profile = EmptyProfile

\* C9 with "is a recognized id" read as "parseInt of the key is one".
C9_ParsedIds ==
    (Done /\ \A i \in 1..Len(answers) :
                  parseInt(answers[i].id).nan \/ parseInt(answers[i].id).val \notin RecognizedIds)
        => profile = EmptyProfile

\* The tag tables of the claim.
InterestTable ==
    [a \in AllAnswers |->
        CASE a = "analytical" -> <<"Problem Solving", "Analysis">>
          [] a = "creative" -> <<"Creative Work", "Design">>
          [] a = "people-oriented" -> <<"People Management", "Communication">>
          [] a = "leadership" -> <<"Leadership", "Management">>
          [] OTHER -> <<>>]
SkillTable ==
    [a \in AllAnswers |->
        CASE a = "technical" -> <<"Technical Skills", "Programming">>
          [] a = "communication" -> <<"Communication", "Presentation">>
          [] a = "leadership-skills" -> <<"Leadership", "Management">>
          [] a = "creative-skills" -> <<"Creative Skills", "Design">>
          [] OTHER -> <<>>]

\* C10: with one entry for id 1 and one for id 7, interests and skills are
\* the tag pairs of those two answers, whatever other entries there are.
C10_TagsOfIds1And7 ==
    (Done /\ Cardinality(EntriesFor(1)) = 1 /\ Cardinality(EntriesFor(7)) = 1) =>
        LET a1 == answers[CHOOSE i \in EntriesFor(1) : TRUE].answer
            a7 == answers[CHOOSE i \in EntriesFor(7) : TRUE].answer
        IN  profile.interests = InterestTable[a1] /\ profile.skills = SkillTable[a7]

\* C10 for mappings no other key of which parses to 1 or 7.
C10_ParsedIds ==
    (Done /\ \A i \in 1..Len(answers) :
                  ~parseInt(answers[i].id).nan /\ parseInt(answers[i].id).val \in {1, 7}
                      => i \in EntriesFor(1) \cup EntriesFor(7))
        => C10_TagsOfIds1And7

---------------------------------------------------------------------------
(* C11 *)

\* The sentence each server assigns to an answer of question 3.
GoalAnswers == {"financial", "impact", "growth", "recognition"}
GoalSentence(variant, a) ==
    CASE a = "financial" -> "Financial success and stability"
      [] a = "impact" -> IF variant = "genai" THEN "Positive social impact"
                         ELSE "Making positive social impact"
      [] a = "growth" -> "Personal and professional growth"
      [] a = "recognition" -> "Achievement and recognition"

AnswerFor(n) == answers[CHOOSE i \in EntriesFor(n) : TRUE].answer

AtMostOnePerId == \A n \in RecognizedIds : Cardinality(EntriesFor(n)) <= 1

\* C11: careerGoals is the sentence of the id-3 answer when that answer is
\* one of the four goal answers and "" when id 3 is absent or has another
\* answer; workStyle, industry and experience are the raw answers of ids 2,
\* 4 and 10.
C11_GoalsAndRawCopies ==
    (Done /\ AtMostOnePerId) =>
        /\ profile.careerGoals =
               IF EntriesFor(3) # {} /\ AnswerFor(3) \in GoalAnswers
               THEN GoalSentence(pc, AnswerFor(3))
               ELSE ""
        /\ EntriesFor(2) # {} => profile.workStyle = AnswerFor(2)
        /\ EntriesFor(4) # {} => profile.industry = AnswerFor(4)
        /\ EntriesFor(10) # {} => profile.experience = AnswerFor(10)

\* Every key that parseInt maps to a recognized id is the numeral of that id.
OnlyNumeralsParse ==
    \A i \in 1..Len(answers) :
        LET n == parseInt(answers[i].id)
        IN  (~n.nan /\ n.val \in RecognizedIds) => IsId(answers[i].id, n.val)

\* C11 for mappings in which only numerals parse to a recognized id.
C11_ParsedIds == OnlyNumeralsParse => C11_GoalsAndRawCopies

---------------------------------------------------------------------------
(* C12, C16 *)

Called == second.variant # "none"

\* C12: for a mapping with at most one entry per question id, two calls of
\* one server return the same profile, whatever the iteration order of the
\* entries in the second call.
C12_OrderIndependent ==
    (Called /\ second.variant = pc /\ AtMostOnePerId) => second.profile = profile

\* C12 for mappings in which only numerals parse to a recognized id.
C12_ParsedIds == OnlyNumeralsParse => C12_OrderIndependent

\* Calling twice on the same entries returns the same profile.
C12_Deterministic ==
    (Called /\ second.variant = pc /\ second.entries = answers) => second.profile = profile

\* C16: on the same mapping the two servers return the same profile.
C16_VariantsEquivalent ==
    (Called /\ second.variant # pc /\ second.entries = answers) => second.profile = profile

\* The two servers agree on every field but careerGoals.
C16_AllButCareerGoals ==
    (Called /\ second.variant # pc /\ second.entries = answers) =>
        [second.profile EXCEPT !.careerGoals = ""] = [profile EXCEPT !.careerGoals = ""]

---------------------------------------------------------------------------
(* C13 *)

IsQuiz(q) == q.route = "/api/quiz-analysis"
Answered(q) == Len(q.responses) = 1

helperResults(q) ==
    IF q.server = "genai"
    THEN [profile |-> extractProfileFromAnswers_genai(q.body.answers.entries),
          parsed |-> parseAnalysis_genai(q.text)]
    ELSE [profile |-> extractProfileFromAnswers_legacy(q.body.answers.entries),
          parsed |-> parseAnalysis_legacy(q.text)]

\* The response of every quiz request whose external call returned is built
\* from that request's own answers and own generated text.
C13_OwnInputs ==
    \A r \in Req :
        LET q == requests[r]
            own == helperResults(q)
        IN  (IsQuiz(q) /\ q.outcome = "resolved") =>
                /\ Answered(q)
                /\ q.responses[1].status = 200
                /\ q.responses[1].body =
                       [analysis |-> own.parsed.summary,
                        recommendations |-> own.parsed.recommendations,
                        nextSteps |-> own.parsed.nextSteps,
                        profile |-> own.profile]

\* No step changes the body of a request that has arrived, the text that was
\* returned to it, or a response it was given.
C13_InputsKept ==
    \A r \in Req :
        /\ requests[r].pc # "idle" => requests'[r].body = requests[r].body
        /\ requests[r].outcome = "resolved" => requests'[r].text = requests[r].text
        /\ Answered(requests[r]) => requests'[r].responses = requests[r].responses

\* C13: under every interleaving of the requests, each quiz response holds
\* the profile of the request's own answers and the parse of the text
\* returned to the request's own external call, and handling a request
\* changes neither its own inputs nor anything of another request.
C13_Isolation == []C13_OwnInputs /\ [][C13_InputsKept]_vars

\* A quiz request has been answered while another one, with other answers,
\* is suspended at its await.
C13_Witness ==
    \E r, o \in Req :
        /\ IsQuiz(requests[r]) /\ requests[r].outcome = "resolved" /\ Answered(requests[r])
        /\ IsQuiz(requests[o]) /\ requests[o].pc = "awaiting"
        /\ requests[o].body.answers # requests[r].body.answers

---------------------------------------------------------------------------
(* C14 *)

Failed(r) == requests[r].outcome = "threw"
OnlyErrors(r) ==
    \A i \in 1..Len(requests[r].responses) : requests[r].responses[i].status >= 400

\* C14: a request whose external call threw eventually has exactly one
\* response, an error response, and never a success response.
C14_FailureAnswered ==
    \A r \in Req :
        /\ [](Failed(r) => Len(requests[r].responses) <= 1 /\ OnlyErrors(r))
        /\ Failed(r) ~> (Answered(requests[r]) /\ OnlyErrors(r))

\* C14 for every handler but /api/chat of the @google/generative-ai server.
C14_OtherHandlers ==
    \A r \in Req :
        (Failed(r) /\ ~(requests[r].server = "legacy" /\ requests[r].route = "/api/chat"))
            ~> (Answered(requests[r]) /\ OnlyErrors(r))

\* C14 for thrown values that have a message string.
C14_WithMessage ==
    \A r \in Req :
        (Failed(r) /\ requests[r].error.hasMessage)
            ~> (Answered(requests[r]) /\ OnlyErrors(r))

---------------------------------------------------------------------------
(* C15 *)

ApiServers == {"genai", "legacy"}
MissingOrFalsy(v) == v \in {Undefined, Null, Str(<<>>)}
NotAnObject(v) == v.type \notin {"object", "null"}

FailsValidation(q) ==
    /\ q.server \in ApiServers
    /\ \/ IsQuiz(q) /\ (MissingOrFalsy(q.body.answers) \/ NotAnObject(q.body.answers))
       \/ q.route = "/api/chat" /\ MissingOrFalsy(q.body.message)

\* C15: a quiz request without an object for answers and a chat request
\* without a message get status 400 and no external call; a request makes
\* at most one external call, and none unless it passed validation.
C15_ValidationFirst ==
    \A r \in Req :
        LET q == requests[r]
        IN  /\ q.calls <= 1
            /\ (q.pc # "idle" /\ FailsValidation(q)) =>
                   /\ q.calls = 0
                   /\ Answered(q)
                   /\ q.responses[1].status = 400

\* One request was refused for its answers, another for its message, and a
\* third kind of request, a valid one, has made its external call.
C15_Witness ==
    /\ \E r \in Req :
          /\ IsQuiz(requests[r]) /\ requests[r].body.answers = Str(<<"a">>)
          /\ Answered(requests[r]) /\ requests[r].calls = 0
    /\ \E r \in Req :
          /\ requests[r].route = "/api/chat" /\ requests[r].calls = 1

====
